---- MODULE Spec2Model ----
(***************************************************************************)
(* Client side of the MySQL connection phase of go-mysql:                  *)
(*   Conn.readInitialHandshake, Conn.genAuthResponse, Conn.genAttributes   *)
(*   and Conn.writeAuthHandshake (client/auth.go),                         *)
(* and the flavor dispatch ParseGTIDSet (mysql/gtid.go).                   *)
(*                                                                         *)
(* Byte slices are sequences of 0..255 (Go index i is TLA+ index i + 1).   *)
(* A uint32 capability word is the set of its set bit positions, so that   *)
(* |, & and &^ are \cup, \cap and \ and no 32-bit value overflows; the     *)
(* conversions from and to little-endian bytes are computed bit by bit.    *)
(***************************************************************************)
EXTENDS Integers, Sequences, FiniteSets, TLC

(***************************************************************************)
(* Bounds of the model                                                     *)
(***************************************************************************)
\* length of the long password (a cleartext auth response above 250 bytes)
LongPasswordLen == 251
\* how many greetings one connection object may be made to parse (SpecReuse)
MaxReads == 2
\* how many calls of ParseGTIDSet are followed (SpecGTID)
MaxGTIDCalls == 2

(***************************************************************************)
(* Protocol constants (mysql/const.go)                                     *)
(***************************************************************************)
ERR_HEADER == 255
ClassicProtocolVersion == 10
XProtocolVersion == 11

CLIENT_LONG_PASSWORD == {0}
CLIENT_FOUND_ROWS == {1}
CLIENT_LONG_FLAG == {2}
CLIENT_CONNECT_WITH_DB == {3}
CLIENT_COMPRESS == {5}
CLIENT_LOCAL_FILES == {7}
CLIENT_IGNORE_SPACE == {8}
CLIENT_PROTOCOL_41 == {9}
CLIENT_SSL == {11}
CLIENT_TRANSACTIONS == {13}
CLIENT_SECURE_CONNECTION == {15}
CLIENT_MULTI_STATEMENTS == {16}
CLIENT_MULTI_RESULTS == {17}
CLIENT_PS_MULTI_RESULTS == {18}
CLIENT_PLUGIN_AUTH == {19}
CLIENT_CONNECT_ATTRS == {20}
CLIENT_PLUGIN_AUTH_LENENC_CLIENT_DATA == {21}
CLIENT_ZSTD_COMPRESSION_ALGORITHM == {26}
CLIENT_QUERY_ATTRIBUTES == {27}

\* "mysql_native_password"
AUTH_NATIVE_PASSWORD ==
  <<109,121,115,113,108,95,110,97,116,105,118,101,95,112,97,115,115,119,111,114,100>>
\* "caching_sha2_password"
AUTH_CACHING_SHA2_PASSWORD ==
  <<99,97,99,104,105,110,103,95,115,104,97,50,95,112,97,115,115,119,111,114,100>>
\* "sha256_password"
AUTH_SHA256_PASSWORD ==
  <<115,104,97,50,53,54,95,112,97,115,115,119,111,114,100>>
\* "client_ed25519"
AUTH_MARIADB_ED25519 ==
  <<99,108,105,101,110,116,95,101,100,50,53,53,49,57>>
\* "mysql_clear_password"
AUTH_CLEAR_PASSWORD ==
  <<109,121,115,113,108,95,99,108,101,97,114,95,112,97,115,115,119,111,114,100>>

defaultAuthPluginName == AUTH_NATIVE_PASSWORD

supportedAuthPlugins ==
  {AUTH_NATIVE_PASSWORD, AUTH_SHA256_PASSWORD, AUTH_CACHING_SHA2_PASSWORD,
   AUTH_MARIADB_ED25519}

\* the check letting through every name genAuthResponse has a case for
authPluginAllowedWithClear(pluginName) ==
  pluginName \in supportedAuthPlugins \cup {AUTH_CLEAR_PASSWORD}

authPluginAllowed(pluginName) == pluginName \in supportedAuthPlugins

(***************************************************************************)
(* Go slices and little-endian integers                                    *)
(***************************************************************************)
\* data[lo:hi] is legal (no "slice bounds out of range" panic); the packet
\* buffer is taken to have no spare capacity
SliceOK(data, lo, hi) == 0 <= lo /\ lo <= hi /\ hi <= Len(data)

\* data[lo:hi]
Slice(data, lo, hi) == SubSeq(data, lo + 1, hi)

\* data[i] is legal (no "index out of range" panic)
IndexOK(data, i) == 0 <= i /\ i < Len(data)

\* data[i]
At(data, i) == data[i + 1]

\* bytes.IndexByte(s, b): the index of the first b in s, or -1
IndexByte(s, b) ==
  IF \E i \in 1..Len(s) : s[i] = b
  THEN (CHOOSE i \in 1..Len(s) : s[i] = b /\ \A j \in 1..(i - 1) : s[j] # b) - 1
  ELSE -1

Pow2(n) == 2 ^ n

\* bit i of the byte b
BitOf(b, i) == (b \div Pow2(i)) % 2

\* binary.LittleEndian.Uint16(b) as the set of its set bits
Uint16Bits(b) ==
  {i \in 0..7 : BitOf(b[1], i) = 1} \cup {i + 8 : i \in {j \in 0..7 : BitOf(b[2], j) = 1}}

\* binary.LittleEndian.Uint16(b) as a number
Uint16(b) == b[1] + 256 * b[2]

\* binary.LittleEndian.Uint32(b) as a number (connection ids stay below 2^31)
Uint32(b) == b[1] + 256 * b[2] + 65536 * b[3] + 16777216 * b[4]

\* x << 16 on a bit set
Shl16(bits) == {i + 16 : i \in bits}

RECURSIVE SumBits(_, _)
SumBits(bits, shift) ==
  IF bits = {} THEN 0
  ELSE LET i == CHOOSE x \in bits : TRUE
       IN Pow2(i - shift) + SumBits(bits \ {i}, shift)

\* byte(x >> shift) of a 32-bit word given as a bit set
ByteOf(bits, shift) == SumBits(bits \cap (shift..(shift + 7)), shift)

\* n bytes of value b
Fill(n, b) == [i \in 1..n |-> b]

(***************************************************************************)
(* Conn.readInitialHandshake (lines 35-145)                                *)
(*                                                                         *)
(* A parse is threaded through the stages below as a record                *)
(*   [c |-> the connection's negotiation fields, pos |-> read position,    *)
(*    ret |-> "" while running, else the outcome].                         *)
(* Outcomes: "ok" (nil), the error returned, or "panic" (a Go run-time     *)
(* panic: index or slice bounds out of range).  Fields assigned before an  *)
(* early return or a panic stay assigned.                                  *)
(***************************************************************************)
ErrServerError == "ServerError"                    \* line 42
ErrProtocolMismatch == "ProtocolMismatch"          \* lines 47-52
ErrMalformedPacket == "MalformedPacket"            \* lines 71, 101, 133
ErrUnsupportedServer == "UnsupportedServer"        \* line 79
ErrTLSRequired == "TLSRequiredButUnsupported"      \* line 82
ErrReadPacket == "ReadPacketError"                 \* line 38
Panic == "panic"

Stop(s, outcome) == [s EXCEPT !.ret = outcome]

\* the first byte stored as the version before it is checked
ParseHeaderStoresFirst(s, data) ==
  IF ~IndexOK(data, 0) THEN Stop(s, Panic)
  ELSE LET s1 == [s EXCEPT !.c.serverVersion = <<At(data, 0)>>]
       IN IF At(data, 0) = ERR_HEADER THEN Stop(s1, ErrServerError)
          ELSE IF At(data, 0) # ClassicProtocolVersion THEN Stop(s1, ErrProtocolMismatch)
          ELSE [s1 EXCEPT !.pos = 1]

\* lines 41-54: the first byte
ParseHeader(s, data) ==
  IF ~IndexOK(data, 0) THEN Stop(s, Panic)
  ELSE IF At(data, 0) = ERR_HEADER THEN Stop(s, ErrServerError)
  ELSE IF At(data, 0) # ClassicProtocolVersion THEN Stop(s, ErrProtocolMismatch)
  ELSE [s EXCEPT !.pos = 1]

\* lines 58-60: the server version, up to the first zero byte
ParseVersion(s, data) ==
  IF s.ret # "" THEN s
  ELSE LET pos == s.pos
           hi == IndexByte(Slice(data, pos, Len(data)), 0) + 1
       IN IF ~SliceOK(data, pos, hi) THEN Stop(s, Panic)
          ELSE LET version == Slice(data, pos, hi)
               IN [s EXCEPT !.c.serverVersion = version,
                            !.pos = pos + Len(version) + 1]

\* lines 63-64: connection id
ParseConnectionID(s, data) ==
  IF s.ret # "" THEN s
  ELSE IF ~SliceOK(data, s.pos, s.pos + 4) THEN Stop(s, Panic)
  ELSE [s EXCEPT !.c.connectionID = Uint32(Slice(data, s.pos, s.pos + 4)),
                 !.pos = s.pos + 4]

\* lines 67-73: c.salt = append(c.salt[:0], 8 bytes), then the zero byte
ParseSaltPart1(s, data) ==
  IF s.ret # "" THEN s
  ELSE IF ~SliceOK(data, s.pos, s.pos + 8) THEN Stop(s, Panic)
  ELSE LET s1 == [s EXCEPT !.c.salt = Slice(data, s.pos, s.pos + 8),
                           !.pos = s.pos + 8]
       IN IF ~IndexOK(data, s1.pos) THEN Stop(s1, Panic)
          ELSE IF At(data, s1.pos) # 0 THEN Stop(s1, ErrMalformedPacket)
          ELSE [s1 EXCEPT !.pos = s1.pos + 1]

\* the two checks of lines 78-83 in the other order
ParseLowerCapabilityTLSFirst(s, data, tls) ==
  IF s.ret # "" THEN s
  ELSE IF ~SliceOK(data, s.pos, s.pos + 2) THEN Stop(s, Panic)
  ELSE LET s1 == [s EXCEPT !.c.capability = Uint16Bits(Slice(data, s.pos, s.pos + 2))]
       IN IF s1.c.capability \cap CLIENT_SSL = {} /\ tls
          THEN Stop(s1, ErrTLSRequired)
          ELSE IF s1.c.capability \cap CLIENT_PROTOCOL_41 = {}
          THEN Stop(s1, ErrUnsupportedServer)
          ELSE [s1 EXCEPT !.pos = s1.pos + 2]

ParseLowerCapabilityNoTLSCheck(s, data, tls) ==
  IF s.ret # "" THEN s
  ELSE IF ~SliceOK(data, s.pos, s.pos + 2) THEN Stop(s, Panic)
  ELSE LET s1 == [s EXCEPT !.c.capability = Uint16Bits(Slice(data, s.pos, s.pos + 2))]
       IN IF s1.c.capability \cap CLIENT_PROTOCOL_41 = {}
          THEN Stop(s1, ErrUnsupportedServer)
          ELSE [s1 EXCEPT !.pos = s1.pos + 2]

\* lines 76-84: lower capability flags and the two checks on them
ParseLowerCapability(s, data, tls) ==
  IF s.ret # "" THEN s
  ELSE IF ~SliceOK(data, s.pos, s.pos + 2) THEN Stop(s, Panic)
  ELSE LET s1 == [s EXCEPT !.c.capability = Uint16Bits(Slice(data, s.pos, s.pos + 2))]
       IN IF s1.c.capability \cap CLIENT_PROTOCOL_41 = {}
          THEN Stop(s1, ErrUnsupportedServer)
          ELSE IF s1.c.capability \cap CLIENT_SSL = {} /\ tls
          THEN Stop(s1, ErrTLSRequired)
          ELSE [s1 EXCEPT !.pos = s1.pos + 2]

\* lines 89-106: charset, status, upper capability flags, auth-plugin-data
\* length, 10 reserved bytes; apl carries authPluginDataLen to the next stage
ParseTailFixed(s, data) ==
  IF s.ret # "" THEN s
  ELSE LET p1 == s.pos + 1
       IN IF ~SliceOK(data, p1, p1 + 2) THEN Stop(s, Panic)
          ELSE LET s1 == [s EXCEPT !.c.status = Uint16(Slice(data, p1, p1 + 2))]
                   p2 == p1 + 2
               IN IF ~SliceOK(data, p2, p2 + 2) THEN Stop(s1, Panic)
                  ELSE LET s2 == [s1 EXCEPT !.c.capability =
                                     Shl16(Uint16Bits(Slice(data, p2, p2 + 2)))
                                       \cup s1.c.capability]
                           p3 == p2 + 2
                       IN IF ~IndexOK(data, p3) THEN Stop(s2, Panic)
                          ELSE IF s2.c.capability \cap CLIENT_PLUGIN_AUTH = {}
                                  /\ At(data, p3) > 0
                          THEN Stop(s2, ErrMalformedPacket)
                          ELSE [s2 EXCEPT !.apl = At(data, p3), !.pos = p3 + 1 + 10]

ParseSaltPart2WholeRest(s, data) ==
  IF s.ret # "" THEN s
  ELSE IF s.c.capability \cap CLIENT_SECURE_CONNECTION = {} THEN s
  ELSE LET rest == IF s.apl - 8 < 13 THEN 13 ELSE s.apl - 8
       IN IF ~SliceOK(data, s.pos, s.pos + rest) THEN Stop(s, Panic)
          ELSE [s EXCEPT !.c.salt = s.c.salt \o Slice(data, s.pos, s.pos + rest),
                         !.pos = s.pos + rest]

\* lines 108-126: the rest of the scramble
ParseSaltPart2(s, data) ==
  IF s.ret # "" THEN s
  ELSE IF s.c.capability \cap CLIENT_SECURE_CONNECTION = {} THEN s
  ELSE LET rest == IF s.apl - 8 < 13 THEN 13 ELSE s.apl - 8
       IN IF ~SliceOK(data, s.pos, s.pos + rest - 1) THEN Stop(s, Panic)
          ELSE [s EXCEPT !.c.salt = s.c.salt \o Slice(data, s.pos, s.pos + rest - 1),
                         !.pos = s.pos + rest]

\* lines 128-136: the plugin name, up to the first zero byte
ParsePluginName(s, data) ==
  IF s.ret # "" THEN s
  ELSE IF s.c.capability \cap CLIENT_PLUGIN_AUTH = {} THEN s
  ELSE IF ~SliceOK(data, s.pos, Len(data)) THEN Stop(s, Panic)
  ELSE LET hi == s.pos + IndexByte(Slice(data, s.pos, Len(data)), 0)
       IN IF ~SliceOK(data, s.pos, hi) THEN Stop(s, Panic)
          ELSE LET s1 == [s EXCEPT !.c.authPluginName = Slice(data, s.pos, hi),
                                   !.pos = hi]
               IN IF ~IndexOK(data, s1.pos) THEN Stop(s1, Panic)
                  ELSE IF At(data, s1.pos) # 0 THEN Stop(s1, ErrMalformedPacket)
                  ELSE s1

\* lines 86-137: the extended tail, parsed only when bytes remain
ParseTail(s, data) ==
  IF s.ret # "" THEN s
  ELSE IF ~(Len(data) > s.pos) THEN s
  ELSE ParsePluginName(ParseSaltPart2(ParseTailFixed(s, data), data), data)

\* lines 139-144: the client default when no plugin name is stored
ParseDefaultPlugin(s) ==
  IF s.ret # "" THEN s
  ELSE Stop(IF s.c.authPluginName = <<>>
            THEN [s EXCEPT !.c.authPluginName = defaultAuthPluginName]
            ELSE s, "ok")

\* the whole parse of packet data on a connection with negotiation fields c
readInitialHandshake(c, data, tls) ==
  ParseDefaultPlugin(
    ParseTail(
      ParseLowerCapability(
        ParseSaltPart1(
          ParseConnectionID(
            ParseVersion(
              ParseHeader([c |-> c, pos |-> 0, apl |-> 0, ret |-> ""], data),
              data), data), data), data, tls), data))

(***************************************************************************)
(* Helpers of package mysql used by the builder (mysql/util.go)            *)
(***************************************************************************)
\* the low byte k (0-based) of the number n
ByteN(n, k) == (n \div (256 ^ k)) % 256

\* mysql.AppendLengthEncodedInteger(nil, n) and mysql.PutLengthEncodedInt(n):
\* one byte up to 250, then 0xfc + 2 bytes, 0xfd + 3 bytes (lengths here stay
\* below 2^24, so the 0xfe + 8 bytes form is not needed)
PutLengthEncodedInt(n) ==
  IF n <= 250 THEN <<n>>
  ELSE IF n <= 65535 THEN <<252, ByteN(n, 0), ByteN(n, 1)>>
  ELSE <<253, ByteN(n, 0), ByteN(n, 1), ByteN(n, 2)>>

\* mysql.PutLengthEncodedString(b)
PutLengthEncodedString(b) == PutLengthEncodedInt(Len(b)) \o b

\* stand-in for a keyed hash of n bytes over (scramble, password)
Digest(n, scramble, password) ==
  [i \in 1..n |-> (i + 7 * Len(scramble) + 13 * Len(password)) % 256]

\* mysql.CalcPassword: nil for the empty password, else 20 bytes (SHA-1)
CalcPassword(scramble, password) ==
  IF Len(password) = 0 THEN <<>> ELSE Digest(20, scramble, password)

\* mysql.CalcCachingSha2Password: nil for the empty password, else 32 bytes
CalcCachingSha2Password(scramble, password) ==
  IF Len(password) = 0 THEN <<>> ELSE Digest(32, scramble, password)

\* mysql.CalcEd25519Password: a 64-byte signature
CalcEd25519Password(scramble, password) == Digest(64, scramble, password)

\* charset.GetCollationByName: the collation id, or -1 for an unknown name
DEFAULT_COLLATION_NAME == "utf8_general_ci"

GetCollationByName(name) ==
  CASE name = "utf8_general_ci" -> 33
    [] name = "utf8mb4_0900_ai_ci" -> 255
    [] name = "utf8mb4_0900_bin" -> 309
    [] OTHER -> -1

(***************************************************************************)
(* Conn.genAuthResponse (lines 153-188)                                    *)
(***************************************************************************)
ErrUnsupportedAuthPlugin == "UnsupportedAuthPlugin"  \* line 186
ErrUnknownAuthPlugin == "UnknownAuthPlugin"          \* line 207
ErrInvalidCollation == "InvalidCollation"            \* line 297
ErrBadConn == "ErrBadConn"                           \* packet.Conn.WritePacket
ErrTLSHandshake == "TLSHandshakeError"               \* tls.Conn.Handshake

\* the results of genAuthResponse; prim names the hash or signature primitive
\* it invoked, "" when it invoked none
AuthRet(auth, addNull, err, prim) ==
  [auth |-> auth, addNull |-> addNull, err |-> err, prim |-> prim]

\* sha256_password sending the password whatever the transport
GenSha256AlwaysCleartext(password, tls, proto) ==
  IF Len(password) = 0 THEN AuthRet(<<>>, TRUE, "", "")
  ELSE AuthRet(password, TRUE, "", "")

\* lines 162-174: sha256_password
GenSha256(password, tls, proto) ==
  IF Len(password) = 0 THEN AuthRet(<<>>, TRUE, "", "")
  ELSE IF tls \/ proto = "unix" THEN AuthRet(password, TRUE, "", "")
  ELSE AuthRet(<<1>>, FALSE, "", "")

\* client_ed25519 without the length check of line 176
GenEd25519NoLengthCheck(authData, password) ==
  AuthRet(CalcEd25519Password(authData, password), FALSE, "", "CalcEd25519Password")

\* lines 175-183: client_ed25519
GenEd25519(authData, password) ==
  IF Len(authData) # 32 THEN AuthRet(<<>>, FALSE, ErrMalformedPacket, "")
  ELSE AuthRet(CalcEd25519Password(authData, password), FALSE, "", "CalcEd25519Password")

\* c.salt is the slice a fresh connection built: authData[:20] on a salt
\* shorter than 20 bytes is out of its capacity and panics
genAuthResponse(pluginName, authData, password, tls, proto) ==
  CASE pluginName = AUTH_NATIVE_PASSWORD ->
         IF ~SliceOK(authData, 0, 20) THEN AuthRet(<<>>, FALSE, Panic, "")
         ELSE AuthRet(CalcPassword(Slice(authData, 0, 20), password), FALSE, "",
                      "CalcPassword")
    [] pluginName = AUTH_CACHING_SHA2_PASSWORD ->
         AuthRet(CalcCachingSha2Password(authData, password), FALSE, "",
                 "CalcCachingSha2Password")
    [] pluginName = AUTH_CLEAR_PASSWORD ->
         AuthRet(password, TRUE, "", "")
    [] pluginName = AUTH_SHA256_PASSWORD -> GenSha256(password, tls, proto)
    [] pluginName = AUTH_MARIADB_ED25519 -> GenEd25519(authData, password)
    [] OTHER -> AuthRet(<<>>, FALSE, ErrUnsupportedAuthPlugin, "")

(***************************************************************************)
(* Conn.genAttributes (lines 191-202); order is the iteration order of the *)
(* attribute map, a sequence of <<key, value>> pairs                       *)
(***************************************************************************)
RECURSIVE AttrPairs(_)
AttrPairs(order) ==
  IF order = <<>> THEN <<>>
  ELSE PutLengthEncodedString(Head(order)[1]) \o PutLengthEncodedString(Head(order)[2])
         \o AttrPairs(Tail(order))

genAttributes(order) ==
  IF Len(order) = 0 THEN <<>>
  ELSE PutLengthEncodedInt(Len(AttrPairs(order))) \o AttrPairs(order)

\* the orders in which a map with the given set of pairs can be iterated
RECURSIVE Orders(_)
Orders(pairs) ==
  IF pairs = {} THEN {<<>>}
  ELSE UNION {{<<p>> \o o : o \in Orders(pairs \ {p})} : p \in pairs}

(***************************************************************************)
(* Conn.writeAuthHandshake (lines 205-367), in the pieces it runs in order *)
(***************************************************************************)
Min(a, b) == IF a <= b THEN a ELSE b

\* copy(data[pos:], src): the bytes copied and the data after the copy
CopyLen(data, pos, src) == Min(Len(src), Len(data) - pos)

Copy(data, pos, src) ==
  [i \in 1..Len(data) |->
     IF i > pos /\ i <= pos + CopyLen(data, pos, src) THEN src[i - pos] ELSE data[i]]

\* the capability flags without the exclusion step of line 225
ComputeCapabilityNoExclusion(serverCaps, ccaps, clientExplicitOffCaps, tls) ==
  LET kept == CLIENT_PROTOCOL_41 \cup CLIENT_SECURE_CONNECTION \cup CLIENT_LONG_PASSWORD
                \cup CLIENT_TRANSACTIONS \cup CLIENT_PLUGIN_AUTH
                \cup (serverCaps \cap (CLIENT_LONG_FLAG \cup CLIENT_QUERY_ATTRIBUTES))
                \cup (ccaps \cap (CLIENT_FOUND_ROWS \cup CLIENT_IGNORE_SPACE
                                  \cup CLIENT_MULTI_STATEMENTS \cup CLIENT_MULTI_RESULTS
                                  \cup CLIENT_PS_MULTI_RESULTS \cup CLIENT_CONNECT_ATTRS
                                  \cup CLIENT_COMPRESS \cup CLIENT_ZSTD_COMPRESSION_ALGORITHM
                                  \cup CLIENT_LOCAL_FILES))
  IN IF tls THEN kept \cup CLIENT_SSL ELSE kept

\* lines 211-230: the capability flags before the auth response is known
ComputeCapability(serverCaps, ccaps, clientExplicitOffCaps, tls) ==
  LET base == CLIENT_PROTOCOL_41 \cup CLIENT_SECURE_CONNECTION \cup CLIENT_LONG_PASSWORD
                \cup CLIENT_TRANSACTIONS \cup CLIENT_PLUGIN_AUTH
      server == (serverCaps \cap CLIENT_LONG_FLAG) \cup (serverCaps \cap CLIENT_QUERY_ATTRIBUTES)
      client == (ccaps \cap CLIENT_FOUND_ROWS) \cup (ccaps \cap CLIENT_IGNORE_SPACE)
                  \cup (ccaps \cap CLIENT_MULTI_STATEMENTS) \cup (ccaps \cap CLIENT_MULTI_RESULTS)
                  \cup (ccaps \cap CLIENT_PS_MULTI_RESULTS) \cup (ccaps \cap CLIENT_CONNECT_ATTRS)
                  \cup (ccaps \cap CLIENT_COMPRESS)
                  \cup (ccaps \cap CLIENT_ZSTD_COMPRESSION_ALGORITHM)
                  \cup (ccaps \cap CLIENT_LOCAL_FILES)
      kept == (base \cup server \cup client) \ clientExplicitOffCaps
  IN IF tls THEN kept \cup CLIENT_SSL ELSE kept

AddCapabilityNoLenenc(capability, authRespLEI, db, attrData) ==
  capability
    \cup (IF Len(db) > 0 THEN CLIENT_CONNECT_WITH_DB ELSE {})
    \cup (IF Len(attrData) > 0 THEN CLIENT_CONNECT_ATTRS ELSE {})

\* lines 241-246, 261-262, 267-268: the bits the builder adds afterwards
AddCapability(capability, authRespLEI, db, attrData) ==
  capability
    \cup (IF Len(authRespLEI) > 1 THEN CLIENT_PLUGIN_AUTH_LENENC_CLIENT_DATA ELSE {})
    \cup (IF Len(db) > 0 THEN CLIENT_CONNECT_WITH_DB ELSE {})
    \cup (IF Len(attrData) > 0 THEN CLIENT_CONNECT_ATTRS ELSE {})

\* lines 256-273: the payload length the buffer is allocated for
PacketLength(user, authRespLEI, auth, addNull, db, attrData, ccaps) ==
  4 + 4 + 1 + 23 + Len(user) + 1 + Len(authRespLEI) + Len(auth) + 21 + 1
    + (IF addNull THEN 1 ELSE 0)
    + (IF Len(db) > 0 THEN Len(db) + 1 ELSE 0)
    + (IF Len(attrData) > 0 THEN Len(attrData) ELSE 0)
    + (IF ccaps \cap CLIENT_ZSTD_COMPRESSION_ALGORITHM # {} THEN 1 ELSE 0)

\* lines 275-302: the buffer with capability flags, max packet size, collation
HeaderBytes(capability, length, collationID) ==
  [i \in 1..(length + 4) |->
     CASE i = 5 -> ByteOf(capability, 0)
       [] i = 6 -> ByteOf(capability, 8)
       [] i = 7 -> ByteOf(capability, 16)
       [] i = 8 -> ByteOf(capability, 24)
       [] i = 13 -> collationID % 256
       [] OTHER -> 0]

NoFrame ==
  [ret |-> "", capability |-> {}, auth |-> <<>>, addNull |-> FALSE, prim |-> "",
   authRespLEI |-> <<>>, length |-> 0, attrData |-> <<>>, data |-> <<>>]

\* lines 206-302: everything up to the first packet write; ret is "" when the
\* function goes on, else what it returns (or "panic")
BuildFrame(c, cfg, order) ==
  IF ~authPluginAllowed(c.authPluginName)
  THEN [NoFrame EXCEPT !.ret = ErrUnknownAuthPlugin]
  ELSE
    LET capability0 == ComputeCapability(c.capability, cfg.ccaps,
                                         cfg.clientExplicitOffCaps, cfg.tls)
        g == genAuthResponse(c.authPluginName, c.salt, cfg.password, cfg.tls, cfg.proto)
    IN IF g.err # "" THEN [NoFrame EXCEPT !.ret = g.err, !.capability = capability0]
       ELSE
         LET authRespLEI == PutLengthEncodedInt(Len(g.auth))
             attrData == genAttributes(order)
             capability == AddCapability(capability0, authRespLEI, cfg.db, attrData)
             length == PacketLength(cfg.user, authRespLEI, g.auth, g.addNull, cfg.db,
                                    attrData, cfg.ccaps)
             collationName == IF cfg.collation = "" THEN DEFAULT_COLLATION_NAME
                              ELSE cfg.collation
             collationID == GetCollationByName(collationName)
             frame == [ret |-> "", capability |-> capability, auth |-> g.auth,
                       addNull |-> g.addNull, prim |-> g.prim,
                       authRespLEI |-> authRespLEI,
                       length |-> length, attrData |-> attrData,
                       data |-> <<>>]
         IN IF collationID < 0 THEN [frame EXCEPT !.ret = ErrInvalidCollation]
            ELSE [frame EXCEPT !.data = HeaderBytes(capability, length, collationID)]

\* lines 323-364: the rest of the packet.  A serialization is the record
\*   [data, pos, sections], sections listing <<name, bytes written>> in order.
PutSection(z, name, bytes) ==
  [data |-> Copy(z.data, z.pos, bytes),
   pos |-> z.pos + CopyLen(z.data, z.pos, bytes),
   sections |-> Append(z.sections, <<name, CopyLen(z.data, z.pos, bytes)>>)]

\* lines 344-349: db [null terminated string]
PutDb(z, db) == IF Len(db) > 0 THEN PutSection(z, "db", db \o <<0>>) ELSE z

\* lines 356-359: connection attributes
PutAttrs(z, attrData) ==
  IF Len(attrData) > 0 THEN PutSection(z, "attrs", attrData) ELSE z

\* lines 361-364: zstd_compression_level
PutZstd(z, ccaps) ==
  IF ccaps \cap CLIENT_ZSTD_COMPRESSION_ALGORITHM # {}
  THEN PutSection(z, "zstd", <<3>>) ELSE z

Serialize(frame, c, cfg) ==
  LET z0 == [data |-> frame.data, pos |-> 4, sections |-> <<>>]
      z1 == PutSection(z0, "fixed", Slice(frame.data, 4, 13) \o Fill(23, 0))
      z2 == PutSection(z1, "user", cfg.user \o <<0>>)
      z3 == PutSection(z2, "auth", frame.authRespLEI \o frame.auth)
      z4 == IF frame.addNull THEN PutSection(z3, "null", <<0>>) ELSE z3
      z5 == PutDb(z4, cfg.db)
      z6 == PutSection(z5, "plugin", c.authPluginName \o <<0>>)
      z7 == PutAttrs(z6, frame.attrData)
  IN PutZstd(z7, cfg.ccaps)

(***************************************************************************)
(* packet.Conn: WritePacket fills the 4-byte header (3-byte payload length,*)
(* sequence byte), writes, and advances the uint8 Sequence on success      *)
(***************************************************************************)
WithHeader(pkt, seq) ==
  [i \in 1..Len(pkt) |->
     CASE i = 1 -> ByteN(Len(pkt) - 4, 0)
       [] i = 2 -> ByteN(Len(pkt) - 4, 1)
       [] i = 3 -> ByteN(Len(pkt) - 4, 2)
       [] i = 4 -> seq
       [] OTHER -> pkt[i]]

NextSequence(seq) == (seq + 1) % 256

\* the swap without the restore: the new packet.Conn's Sequence stays 0
SwapTransportReset(currentSequence) ==
  [transport |-> "tls", Sequence |-> 0]

\* lines 318-320: the connection is rebuilt over the TLS transport (a new
\* packet.Conn starts at Sequence 0) and the saved Sequence is put back
SwapTransport(currentSequence) ==
  [transport |-> "tls", Sequence |-> currentSequence]

(***************************************************************************)
(* Inputs: greetings a server may send                                     *)
(***************************************************************************)
Bytes16(bits, shift) == <<ByteOf(bits, shift), ByteOf(bits, shift + 8)>>

ScramblePart1 == <<1, 2, 3, 4, 5, 6, 7, 8>>

\* protocol version, version string "5.7", connection id 7, scramble part 1,
\* the byte after it, lower capability flags
GreetingHead(filler, caps) ==
  <<ClassicProtocolVersion, 53, 46, 55, 0, 7, 0, 0, 0>> \o ScramblePart1
    \o <<filler>> \o Bytes16(caps, 0)

\* charset, status, upper capability flags, auth-plugin-data length, reserved,
\* scramble part 2 (when secure-connection is advertised) and plugin name
GreetingTail(caps, apl, name, terminated) ==
  LET rest == IF apl - 8 < 13 THEN 13 ELSE apl - 8
  IN <<33, 2, 0>> \o Bytes16(caps, 16) \o <<apl>> \o Fill(10, 0)
       \o (IF caps \cap CLIENT_SECURE_CONNECTION # {}
           THEN [i \in 1..(rest - 1) |-> 40 + i] \o <<0>> ELSE <<>>)
       \o (IF caps \cap CLIENT_PLUGIN_AUTH # {}
           THEN name \o (IF terminated THEN <<0>> ELSE <<>>) ELSE <<>>)

FullCaps == {2, 9, 11, 15, 19, 27}

\* "dialog": a plugin name the client has no case for
DialogPlugin == <<100, 105, 97, 108, 111, 103>>

\* greetings that end right after the lower capability flags
ShortGreetings ==
  {GreetingHead(f, lo) : f \in {0, 7},
                         lo \in {{2, 9, 11, 15}, {9, 15}, {2, 11, 15}, {9, 11}, {2, 15}}}

\* <<capabilities, auth-plugin-data length, plugin name, terminated>>
FullParams ==
  {<<FullCaps, 21, n, TRUE>> :
      n \in {AUTH_NATIVE_PASSWORD, AUTH_CACHING_SHA2_PASSWORD, AUTH_SHA256_PASSWORD,
             AUTH_CLEAR_PASSWORD, DialogPlugin, <<>>}}
    \cup {<<FullCaps, l, AUTH_MARIADB_ED25519, TRUE>> : l \in {0, 21, 32, 33}}
    \cup {<<FullCaps, l, AUTH_NATIVE_PASSWORD, TRUE>> : l \in {0, 33}}
    \cup {<<FullCaps, 21, AUTH_NATIVE_PASSWORD, FALSE>>}
    \cup {<<{2, 9, 11, 15}, l, <<>>, TRUE>> : l \in {0, 21}}
    \cup {<<{9, 11, 19}, 0, n, TRUE>> : n \in {AUTH_NATIVE_PASSWORD, AUTH_SHA256_PASSWORD}}
    \cup {<<{9, 15, 19}, 21, AUTH_NATIVE_PASSWORD, TRUE>>,
          <<{2, 11, 15, 19}, 21, AUTH_NATIVE_PASSWORD, TRUE>>}

FullGreetings ==
  {GreetingHead(0, p[1]) \o GreetingTail(p[1], p[2], p[3], p[4]) : p \in FullParams}

\* an error packet, two foreign protocol versions, an unterminated version
OddGreetings ==
  {<<ERR_HEADER, 21, 4>>, <<9, 53, 0>>, <<XProtocolVersion, 0>>,
   <<ClassicProtocolVersion, 53, 46, 55>>}

Greetings == ShortGreetings \cup FullGreetings \cup OddGreetings

(***************************************************************************)
(* Inputs: the client's identity and configuration                         *)
(***************************************************************************)
LongPassword == Fill(LongPasswordLen, 120)

CcapsChoices == {{}, {1, 20, 26}, {1, 3, 11, 21}}
OffChoices == {{}, {1, 20, 26}, {3, 9, 11, 21}}

\* the attribute maps: none, or the one pair "k" -> "v"
AttributeChoices == {{}, {<<<<107>>, <<118>>>>}}

BaseConfigs ==
  [user : {<<>>, <<117>>},
   password : {<<>>, <<112, 119>>, LongPassword},
   db : {<<>>, <<100>>},
   tls : BOOLEAN,
   proto : {"tcp"},
   collation : {""},
   ccaps : CcapsChoices,
   clientExplicitOffCaps : OffChoices,
   attributes : AttributeChoices]

\* a local socket, and collation names other than the default
OtherConfigs ==
  [user : {<<117>>},
   password : {<<>>, <<112, 119>>, Fill(LongPasswordLen - 1, 120)},
   db : {<<>>},
   tls : BOOLEAN,
   proto : {"tcp", "unix"},
   collation : {"", "utf8mb4_0900_bin", "bogus"},
   ccaps : {{}},
   clientExplicitOffCaps : {{}},
   attributes : {{}}]

Configs == BaseConfigs \cup OtherConfigs

(***************************************************************************)
(* State                                                                   *)
(***************************************************************************)
VARIABLES
  cfg,        \* user, password, db, tlsConfig # nil, proto, collation, ccaps,
              \* clientExplicitOffCaps, attributes: fixed at construction
  c,          \* serverVersion, connectionID, salt, capability, status, authPluginName
  Sequence,   \* c.Conn.Sequence (uint8)
  transport,  \* c.Conn.Conn: "raw" or "tls"
  pc,         \* where the handshake stands
  handler,    \* the function that ran last: "", "read" or "write"
  ret,        \* what it returned: "", "ok", an error, or "panic"
  data,       \* the greeting packet readInitialHandshake was given
  frame,      \* the locals of writeAuthHandshake
  wire,       \* the packets written so far: [kind, bytes, transport, sections]
  trace,      \* the steps taken so far: [ev, seq]
  reads,      \* calls of readInitialHandshake on this connection
  pre,        \* negotiation fields, Sequence and transport when the handler was called
  gtid        \* the calls of ParseGTIDSet so far: [flavor, s, set, err, called]

vars ==
  <<cfg, c, Sequence, transport, pc, handler, ret, data, frame, wire, trace, reads, pre,
    gtid>>

NewConn ==
  [serverVersion |-> <<>>, connectionID |-> 0, salt |-> <<>>, capability |-> {},
   status |-> 0, authPluginName |-> <<>>]

Snapshot == [c |-> c, Sequence |-> Sequence, transport |-> transport]

Event(ev, seq) == [ev |-> ev, seq |-> seq]

InitWith(configs) ==
  /\ cfg \in configs
  /\ c = NewConn
  /\ Sequence = 0
  /\ transport = "raw"
  /\ pc = "start"
  /\ handler = ""
  /\ ret = ""
  /\ data = <<>>
  /\ frame = NoFrame
  /\ wire = <<>>
  /\ trace = <<>>
  /\ reads = 0
  /\ pre = [c |-> NewConn, Sequence |-> 0, transport |-> "raw"]
  /\ gtid = <<>>

Init == InitWith(Configs)

PcAfter(outcome, next) ==
  IF outcome = Panic THEN "crashed"
  ELSE IF outcome \in {"", "ok"} THEN next
  ELSE "failed"

(***************************************************************************)
(* readInitialHandshake: ReadPacket (line 36), then the parse              *)
(***************************************************************************)
\* ReadPacket returns an error: nothing is parsed
ReadPacketFails ==
  /\ handler' = "read"
  /\ pre' = Snapshot
  /\ reads' = reads + 1
  /\ ret' = ErrReadPacket
  /\ pc' = "failed"
  /\ UNCHANGED <<gtid, cfg, c, Sequence, transport, data, frame, wire, trace>>

\* ReadPacket delivers the packet d (the server's sequence byte is checked and
\* Sequence advanced by the packet layer), which is then parsed
ReadAndParse(d) ==
  LET s == readInitialHandshake(c, d, cfg.tls)
  IN /\ handler' = "read"
     /\ pre' = Snapshot
     /\ reads' = reads + 1
     /\ data' = d
     /\ c' = s.c
     /\ ret' = s.ret
     /\ Sequence' = NextSequence(Sequence)
     /\ pc' = PcAfter(s.ret, "greeted")
     /\ trace' = Append(trace, Event("parse", Sequence'))
     /\ UNCHANGED <<gtid, cfg, transport, frame, wire>>

ReadInitialHandshake ==
  /\ pc = "start"
  /\ \/ ReadPacketFails
     \/ \E d \in Greetings : ReadAndParse(d)

(***************************************************************************)
(* writeAuthHandshake, one action per blocking point                       *)
(***************************************************************************)
\* the upgrade left out: the response is written on the raw transport
AfterHeaderNoUpgrade(tls) == "serialize"

\* line 306: the transport upgrade is taken when tlsConfig is set
AfterHeader(tls) == IF tls THEN "ssl_request" ELSE "serialize"

\* the whole buffer sent as the SSL request
SSLRequestWholeBuffer(buf) == buf

\* line 308: data[:(4+4+1+23)+4]
SSLRequestPacket(buf) == Slice(buf, 0, (4 + 4 + 1 + 23) + 4)

\* lines 206-302: plugin check, capabilities, auth response, lengths, header
WriteAuthHandshakeBegin ==
  /\ pc = "greeted"
  /\ \E order \in Orders(cfg.attributes) :
       LET f == BuildFrame(c, cfg, order)
       IN /\ frame' = f
          /\ ret' = f.ret
          /\ pc' = PcAfter(f.ret, AfterHeader(cfg.tls))
          /\ trace' = trace \o
               (IF f.ret = ErrUnknownAuthPlugin THEN <<>>
                ELSE <<Event("capability", Sequence), Event("genAuthResponse", Sequence)>>)
  /\ handler' = "write"
  /\ pre' = Snapshot
  /\ UNCHANGED <<gtid, cfg, c, Sequence, transport, data, wire, reads>>

\* lines 306-310: the SSL request packet, data[:(4+4+1+23)+4]
WriteSSLRequest ==
  /\ pc = "ssl_request"
  /\ \/ /\ wire' = Append(wire, [kind |-> "sslRequest",
                                 bytes |-> WithHeader(SSLRequestPacket(frame.data), Sequence),
                                 transport |-> transport,
                                 sections |-> <<>>])
        /\ Sequence' = NextSequence(Sequence)
        /\ trace' = Append(trace, Event("writeSSLRequest", Sequence'))
        /\ pc' = "tls_handshake"
        /\ UNCHANGED ret
     \/ /\ ret' = ErrBadConn
        /\ pc' = "failed"
        /\ UNCHANGED <<wire, Sequence, trace>>
  /\ UNCHANGED <<gtid, cfg, c, transport, handler, data, frame, reads, pre>>

\* the handshake error dropped: the function goes on to the rebind
TLSHandshakeIgnoresError ==
  /\ pc = "tls_handshake"
  /\ \/ trace' = Append(trace, Event("tlsHandshake", Sequence))
     \/ trace' = Append(trace, Event("tlsHandshakeFailed", Sequence))
  /\ pc' = "rebind"
  /\ UNCHANGED <<gtid, cfg, c, Sequence, transport, handler, ret, data, frame, wire, reads, pre>>

\* lines 313-316: tls.Client(...).Handshake()
TLSHandshake ==
  /\ pc = "tls_handshake"
  /\ \/ /\ trace' = Append(trace, Event("tlsHandshake", Sequence))
        /\ pc' = "rebind"
        /\ UNCHANGED ret
     \/ /\ trace' = Append(trace, Event("tlsHandshakeFailed", Sequence))
        /\ ret' = ErrTLSHandshake
        /\ pc' = "failed"
  /\ UNCHANGED <<gtid, cfg, c, Sequence, transport, handler, data, frame, wire, reads, pre>>

\* lines 318-320
Rebind ==
  /\ pc = "rebind"
  /\ transport' = SwapTransport(Sequence).transport
  /\ Sequence' = SwapTransport(Sequence).Sequence
  /\ trace' = Append(trace, Event("rebind", Sequence'))
  /\ pc' = "serialize"
  /\ UNCHANGED <<gtid, cfg, c, handler, ret, data, frame, wire, reads, pre>>

\* lines 323-366: the rest of the packet is filled in and the packet written
WriteAuthHandshakeFinish ==
  /\ pc = "serialize"
  /\ LET z == Serialize(frame, c, cfg)
     IN /\ frame' = [frame EXCEPT !.data = z.data]
        /\ \/ /\ wire' = Append(wire, [kind |-> "response",
                                       bytes |-> WithHeader(z.data, Sequence),
                                       transport |-> transport,
                                       sections |-> z.sections])
              /\ Sequence' = NextSequence(Sequence)
              /\ trace' = trace \o <<Event("serialize", Sequence), Event("write", Sequence')>>
              /\ ret' = "ok"
              /\ pc' = "done"
           \/ /\ ret' = ErrBadConn
              /\ pc' = "failed"
              /\ trace' = Append(trace, Event("serialize", Sequence))
              /\ UNCHANGED <<wire, Sequence>>
  /\ UNCHANGED <<gtid, cfg, c, transport, handler, data, reads, pre>>

Next ==
  \/ ReadInitialHandshake
  \/ WriteAuthHandshakeBegin
  \/ WriteSSLRequest
  \/ TLSHandshake
  \/ Rebind
  \/ WriteAuthHandshakeFinish

Spec == Init /\ [][Next]_vars

(***************************************************************************)
(* genAuthResponse called on its own, on whatever plugin name the greeting *)
(* left in the connection (as the handling of an auth switch does)         *)
(***************************************************************************)
GenAuthResponseCall ==
  /\ pc = "greeted"
  /\ LET g == genAuthResponse(c.authPluginName, c.salt, cfg.password, cfg.tls, cfg.proto)
     IN /\ frame' = [NoFrame EXCEPT !.auth = g.auth, !.addNull = g.addNull,
                                    !.ret = g.err, !.prim = g.prim]
        /\ ret' = IF g.err = "" THEN "ok" ELSE g.err
        /\ pc' = PcAfter(g.err, "generated")
  /\ handler' = "gen"
  /\ pre' = Snapshot
  /\ UNCHANGED <<gtid, cfg, c, Sequence, transport, data, wire, trace, reads>>

NextGen ==
  \/ Next
  \/ GenAuthResponseCall

SpecGen == Init /\ [][NextGen]_vars

(***************************************************************************)
(* A connection object made to parse more than one greeting                *)
(***************************************************************************)
ReuseGreetings ==
  {GreetingHead(0, {2, 9, 11, 15}), GreetingHead(7, {2, 9, 11, 15}),
   GreetingHead(0, FullCaps) \o GreetingTail(FullCaps, 21, AUTH_SHA256_PASSWORD, TRUE),
   GreetingHead(0, FullCaps) \o GreetingTail(FullCaps, 21, AUTH_NATIVE_PASSWORD, TRUE),
   GreetingHead(0, FullCaps) \o GreetingTail(FullCaps, 33, AUTH_MARIADB_ED25519, TRUE),
   GreetingHead(0, {2, 9, 11, 15}) \o GreetingTail({2, 9, 11, 15}, 0, <<>>, TRUE),
   <<ERR_HEADER, 21, 4>>}

ReuseConfigs == {cf \in OtherConfigs : cf.collation = "" /\ cf.proto = "tcp"}

\* readInitialHandshake has no guard against a second call on the same Conn
ReadAgain ==
  /\ pc \in {"start", "greeted", "failed"}
  /\ reads < MaxReads
  /\ \/ ReadPacketFails
     \/ \E d \in ReuseGreetings : ReadAndParse(d)

SpecReuse == InitWith(ReuseConfigs) /\ [][ReadAgain]_vars

(***************************************************************************)
(* mysql/gtid.go: ParseGTIDSet.  The two flavor parsers are not part of    *)
(* this file; they stand for "the parser of that flavor applied to s".     *)
(***************************************************************************)
MySQLFlavor == "mysql"
MariaDBFlavor == "mariadb"

ErrInvalidFlavor == "InvalidFlavor"
ErrMysqlGTIDParse == "MysqlGTIDParseError"
ErrMariadbGTIDParse == "MariadbGTIDParseError"

NilGTIDSet == [kind |-> "nil", text |-> ""]

\* texts each flavor's parser accepts: the empty set, a uuid with an
\* interval, a domain-server-sequence triple
MysqlGTIDTexts == {"", "3E11FA47-71CA-11E1-9E33-C80AA9429562:1-5"}
MariadbGTIDTexts == {"", "0-1-100"}

ParseMysqlGTIDSet(s) ==
  IF s \in MysqlGTIDTexts THEN [set |-> [kind |-> "MysqlGTIDSet", text |-> s], err |-> ""]
  ELSE [set |-> NilGTIDSet, err |-> ErrMysqlGTIDParse]

ParseMariadbGTIDSet(s) ==
  IF s \in MariadbGTIDTexts THEN [set |-> [kind |-> "MariadbGTIDSet", text |-> s], err |-> ""]
  ELSE [set |-> NilGTIDSet, err |-> ErrMariadbGTIDParse]

\* the result of ParseGTIDSet and the parser it called
GTIDRet(r, called) == [set |-> r.set, err |-> r.err, called |-> called]

ParseGTIDSetSwapped(flavor, s) ==
  CASE flavor = MySQLFlavor -> GTIDRet(ParseMariadbGTIDSet(s), "ParseMariadbGTIDSet")
    [] flavor = MariaDBFlavor -> GTIDRet(ParseMysqlGTIDSet(s), "ParseMysqlGTIDSet")
    [] OTHER -> GTIDRet([set |-> NilGTIDSet, err |-> ErrInvalidFlavor], "")

\* lines 25-34
ParseGTIDSet(flavor, s) ==
  CASE flavor = MySQLFlavor -> GTIDRet(ParseMysqlGTIDSet(s), "ParseMysqlGTIDSet")
    [] flavor = MariaDBFlavor -> GTIDRet(ParseMariadbGTIDSet(s), "ParseMariadbGTIDSet")
    [] OTHER -> GTIDRet([set |-> NilGTIDSet, err |-> ErrInvalidFlavor], "")

Flavors == {"mysql", "mariadb", "MySQL", "", "postgres"}
GTIDTexts == MysqlGTIDTexts \cup MariadbGTIDTexts \cup {"1-2"}

ParseGTIDSetCall ==
  /\ Len(gtid) < MaxGTIDCalls
  /\ \E flavor \in Flavors, s \in GTIDTexts :
       LET r == ParseGTIDSet(flavor, s)
       IN gtid' = Append(gtid, [flavor |-> flavor, s |-> s, set |-> r.set,
                                err |-> r.err, called |-> r.called])
  /\ UNCHANGED <<cfg, c, Sequence, transport, pc, handler, ret, data, frame, wire,
                 trace, reads, pre>>

SpecGTID == InitWith(ReuseConfigs) /\ [][ParseGTIDSetCall]_vars

(***************************************************************************)
(* Reading the packets on the wire                                         *)
(***************************************************************************)
Payload(p) == SubSeq(p.bytes, 5, Len(p.bytes))

SeqOf(p) == p.bytes[4]

\* the capability flags of a written packet: its first four payload bytes
SentCaps(p) ==
  {i \in 0..31 : BitOf(Payload(p)[(i \div 8) + 1], i % 8) = 1}

SSLRequests == {i \in DOMAIN wire : wire[i].kind = "sslRequest"}
Responses == {i \in DOMAIN wire : wire[i].kind = "response"}

SectionNames(p) == {p.sections[i][1] : i \in DOMAIN p.sections}

RECURSIVE SectionBytes(_)
SectionBytes(sections) ==
  IF sections = <<>> THEN 0 ELSE Head(sections)[2] + SectionBytes(Tail(sections))

EventNames == [i \in DOMAIN trace |-> trace[i].ev]

IsPrefix(a, b) == Len(a) <= Len(b) /\ SubSeq(b, 1, Len(a)) = a

Happened(ev) == \E i \in DOMAIN trace : trace[i].ev = ev

\* every occurrence of ev is preceded by an occurrence of earlier
Precedes(earlier, ev) ==
  \A i \in DOMAIN trace :
    trace[i].ev = ev => \E j \in 1..(i - 1) : trace[j].ev = earlier

(***************************************************************************)
(* The greeting grammar, read off the packet independently of the parser   *)
(***************************************************************************)
\* index of the zero byte ending the version string, counted from byte 1; -1 if none
VersionEnd(d) == IndexByte(Slice(d, 1, Len(d)), 0)

\* position of the byte after scramble part 1
FillerPos(d) == 1 + VersionEnd(d) + 1 + 4 + 8

\* a protocol-10 greeting long enough to hold its lower capability flags
HasLowerCaps(d) ==
  /\ Len(d) > 0
  /\ d[1] = ClassicProtocolVersion
  /\ VersionEnd(d) >= 0
  /\ Len(d) >= FillerPos(d) + 3

LowerCaps(d) == Uint16Bits(Slice(d, FillerPos(d) + 1, FillerPos(d) + 3))

\* the last call of readInitialHandshake was handed the packet in data
ParsedPacket == handler = "read" /\ ret # ErrReadPacket

(***************************************************************************)
(* Claims                                                                  *)
(***************************************************************************)

\* C1: with TLS configured, the SSL request packet is written before the TLS
\* handshake begins, the transport is rebound only after the handshake
\* succeeded, the Sequence right after the rebind is one more than it was when
\* writeAuthHandshake was called, and on success the response is a second
\* packet, on the TLS transport, with the next sequence number.
C1_UpgradeOrderAndSequence ==
  /\ Precedes("writeSSLRequest", "tlsHandshake")
  /\ Precedes("writeSSLRequest", "tlsHandshakeFailed")
  /\ Precedes("tlsHandshake", "rebind")
  /\ ~(Happened("rebind") /\ Happened("tlsHandshakeFailed"))
  /\ \A i \in DOMAIN trace :
       trace[i].ev = "rebind" => trace[i].seq = pre.Sequence + 1
  /\ transport = "tls" <=> Happened("rebind")
  /\ (pc = "done" /\ cfg.tls) =>
       /\ Len(wire) = 2
       /\ wire[1].kind = "sslRequest" /\ wire[1].transport = "raw"
       /\ SeqOf(wire[1]) = pre.Sequence
       /\ wire[2].kind = "response" /\ wire[2].transport = "tls"
       /\ SeqOf(wire[2]) = pre.Sequence + 1
       /\ Sequence = pre.Sequence + 2

C1_Witness ==
  /\ pc = "done" /\ cfg.tls /\ transport = "tls"
  /\ Len(wire) = 2 /\ SeqOf(wire[2]) = 2

\* C2 as stated: no bit that is both in ccaps and in clientExplicitOffCaps is
\* set in the capability flags of a written packet.
C2_ExclusionAlwaysWins ==
  \A i \in DOMAIN wire :
    SentCaps(wire[i]) \cap cfg.ccaps \cap cfg.clientExplicitOffCaps = {}

\* the bits the builder sets after the exclusion step
ForcedCaps ==
  (IF cfg.tls THEN CLIENT_SSL ELSE {})
    \cup (IF Len(cfg.db) > 0 THEN CLIENT_CONNECT_WITH_DB ELSE {})
    \cup (IF cfg.attributes # {} THEN CLIENT_CONNECT_ATTRS ELSE {})
    \cup (IF Len(frame.auth) > 250 THEN CLIENT_PLUGIN_AUTH_LENENC_CLIENT_DATA ELSE {})

\* C2 amended: a bit that is both requested and excluded is absent from the
\* written flags unless the builder forces it afterwards: SSL with TLS
\* configured, connect-with-db with a database name, connect-attrs with a
\* non-empty attribute map, length-encoded client data with an auth response
\* above 250 bytes.
C2_ExclusionWinsUnlessForced ==
  \A i \in DOMAIN wire :
    SentCaps(wire[i]) \cap cfg.ccaps \cap cfg.clientExplicitOffCaps \subseteq ForcedCaps

C2_Witness ==
  \E i \in Responses :
    /\ {1, 20} \subseteq cfg.ccaps \cap cfg.clientExplicitOffCaps
    /\ 1 \notin SentCaps(wire[i])
    /\ 20 \in SentCaps(wire[i])

\* C3 as stated: the payload length of the handshake response equals the sum
\* of the lengths of the sections serialized into it.
C3_LengthIsSumOfSections ==
  \A i \in Responses :
    Len(Payload(wire[i])) = SectionBytes(wire[i].sections)

\* C4 as stated: a protocol-10 packet with no zero byte after its first byte
\* makes readInitialHandshake return MalformedPacket.
C4_UnterminatedVersionIsMalformed ==
  (ParsedPacket /\ Len(data) > 0 /\ data[1] = ClassicProtocolVersion
     /\ VersionEnd(data) = -1)
    => ret = ErrMalformedPacket

\* C5 as stated: a greeting whose lower capability flags lack the
\* protocol-4.1 bit fails with UnsupportedServer whatever else it holds.
C5_NoProtocol41AlwaysUnsupported ==
  (ParsedPacket /\ HasLowerCaps(data) /\ LowerCaps(data) \cap CLIENT_PROTOCOL_41 = {})
    => ret = ErrUnsupportedServer

\* C5 amended: a greeting that parses up to its lower capability flags (the
\* byte after scramble part 1 is zero) and whose flags lack the protocol-4.1
\* bit fails with UnsupportedServer, also with TLS configured and the SSL bit
\* missing, and whatever follows the flags.
C5_NoProtocol41Unsupported ==
  (ParsedPacket /\ HasLowerCaps(data) /\ At(data, FillerPos(data)) = 0
     /\ LowerCaps(data) \cap CLIENT_PROTOCOL_41 = {})
    => ret = ErrUnsupportedServer

C5_Witness ==
  /\ ParsedPacket /\ HasLowerCaps(data) /\ At(data, FillerPos(data)) = 0
  /\ LowerCaps(data) \cap (CLIENT_PROTOCOL_41 \cup CLIENT_SSL) = {}
  /\ cfg.tls
  /\ ret = ErrUnsupportedServer

\* C6 as stated: after readInitialHandshake returned an error the negotiation
\* fields are what they were before the call, and after writeAuthHandshake
\* returned an error the transport and Sequence are what they were.
C6_NoPartialState ==
  /\ (pc = "failed" /\ handler = "read") => c = pre.c
  /\ (pc = "failed" /\ handler = "write") =>
       (transport = pre.transport /\ Sequence = pre.Sequence)

\* C6 amended: the negotiation fields are unchanged when readInitialHandshake
\* fails before the version string is parsed (ReadPacket error, error packet,
\* wrong protocol version); when writeAuthHandshake returns an error, the
\* transport is unchanged unless the TLS handshake had succeeded (the error is
\* then that of the final packet write), and Sequence is unchanged unless the
\* SSL request packet was written, in which case it is one greater.
C6_StateAfterFailure ==
  /\ (pc = "failed" /\ handler = "read"
        /\ ret \in {ErrReadPacket, ErrServerError, ErrProtocolMismatch}) => c = pre.c
  /\ (pc = "failed" /\ handler = "write") =>
       /\ transport = (IF Happened("tlsHandshake") THEN "tls" ELSE pre.transport)
       /\ Happened("tlsHandshake") => ret = ErrBadConn
       /\ Sequence = pre.Sequence + Cardinality(SSLRequests)
       /\ Responses = {}

C6_Witness ==
  /\ pc = "failed" /\ handler = "write" /\ ret = ErrTLSHandshake
  /\ Len(wire) = 1 /\ Sequence = pre.Sequence + 1 /\ transport = "raw"

\* C7 as stated: a successful parse ends in the state a parse of the same
\* bytes ends in from any other prior state, that of a new connection included.
C7_ParseDependsOnBytesOnly ==
  (handler = "read" /\ ret = "ok")
    => c = readInitialHandshake(NewConn, data, cfg.tls).c

\* C8 as stated: with TLS configured the auth response is generated only
\* after the transport was rebound.
C8_AuthGeneratedAfterUpgrade ==
  cfg.tls => Precedes("rebind", "genAuthResponse")

FullOrder(tls) ==
  <<"parse", "capability", "genAuthResponse">>
    \o (IF tls THEN <<"writeSSLRequest", "tlsHandshake", "rebind">> ELSE <<>>)
    \o <<"serialize", "write">>

\* C8 amended: the steps of one handshake happen in the order parse, compute
\* capabilities, generate the auth response, (with TLS) write the SSL request,
\* TLS handshake, rebind, then serialize and write; the auth response is
\* generated before the transport upgrade begins.
C8_StepOrder ==
  /\ \/ IsPrefix(EventNames, FullOrder(cfg.tls))
     \/ /\ cfg.tls
        /\ EventNames = <<"parse", "capability", "genAuthResponse", "writeSSLRequest",
                          "tlsHandshakeFailed">>
  /\ pc = "done" => EventNames = FullOrder(cfg.tls)

C8_Witness == pc = "done" /\ cfg.tls /\ Len(trace) = 8

\* C9 as stated: the database name, the attribute block and the compression
\* level byte are in the response exactly when the connect-with-db, the
\* connect-attrs and the zstd bit are set in the flags it carries.
C9_FlagsDetermineSections ==
  \A i \in Responses :
    /\ "db" \in SectionNames(wire[i])
         <=> SentCaps(wire[i]) \cap CLIENT_CONNECT_WITH_DB # {}
    /\ "attrs" \in SectionNames(wire[i])
         <=> SentCaps(wire[i]) \cap CLIENT_CONNECT_ATTRS # {}
    /\ "zstd" \in SectionNames(wire[i])
         <=> SentCaps(wire[i]) \cap CLIENT_ZSTD_COMPRESSION_ALGORITHM # {}

\* C10 as stated: the packet sent before the TLS handshake has 13 bytes of payload.
C10_SSLRequestIs13Bytes ==
  \A i \in SSLRequests : Len(Payload(wire[i])) = 13

\* C10 amended: the packet sent before the TLS handshake has exactly 32 bytes
\* of payload: the 4-byte capability flags, 4 zero bytes of max packet size,
\* the collation byte and 23 zero filler bytes; nothing of the user name, the
\* auth response, the database or the plugin name.
C10_SSLRequestIs32Bytes ==
  \A i \in SSLRequests :
    LET p == Payload(wire[i])
    IN /\ Len(p) = 32
       /\ SubSeq(p, 1, 4) = <<ByteOf(frame.capability, 0), ByteOf(frame.capability, 8),
                              ByteOf(frame.capability, 16), ByteOf(frame.capability, 24)>>
       /\ SubSeq(p, 5, 8) = <<0, 0, 0, 0>>
       /\ p[9] = GetCollationByName(IF cfg.collation = "" THEN DEFAULT_COLLATION_NAME
                                    ELSE cfg.collation) % 256
       /\ \A k \in 10..32 : p[k] = 0

C10_Witness ==
  \E i \in SSLRequests :
    /\ Len(cfg.user) > 0 /\ Len(cfg.db) > 0 /\ Len(frame.auth) > 0
    /\ wire[i].transport = "raw"

\* the four plugin names of the dispatch table
FourPlugins ==
  {AUTH_NATIVE_PASSWORD, AUTH_CACHING_SHA2_PASSWORD, AUTH_SHA256_PASSWORD,
   AUTH_MARIADB_ED25519}

\* writeAuthHandshake returned before doing anything
RejectedAtOnce ==
  /\ pc = "failed"
  /\ frame = [NoFrame EXCEPT !.ret = ErrUnknownAuthPlugin]
  /\ wire = <<>>
  /\ transport = pre.transport /\ Sequence = pre.Sequence
  /\ ~Happened("capability") /\ ~Happened("genAuthResponse")
  /\ ~Happened("writeSSLRequest")

\* C11 as stated: genAuthResponse fails with the unsupported-plugin error for
\* every plugin name outside the four, and writeAuthHandshake rejects every
\* such name before doing anything.
C11_OnlyFourPluginsGenerate ==
  /\ (handler = "gen" /\ c.authPluginName \notin FourPlugins)
       => frame.ret = ErrUnsupportedAuthPlugin
  /\ (handler = "write" /\ c.authPluginName \notin FourPlugins)
       => (ret = ErrUnknownAuthPlugin /\ RejectedAtOnce)

\* C11 amended: genAuthResponse fails with the unsupported-plugin error for
\* every plugin name other than the four supported ones and
\* mysql_clear_password, for which it returns the raw password with the
\* trailing-zero flag set; writeAuthHandshake rejects every name outside the
\* four, mysql_clear_password included, before computing capabilities,
\* generating auth bytes, writing a packet or touching the transport.
C11_UnsupportedPlugins ==
  /\ (handler = "gen" /\ c.authPluginName \notin FourPlugins \cup {AUTH_CLEAR_PASSWORD})
       => (frame.ret = ErrUnsupportedAuthPlugin /\ frame.auth = <<>> /\ frame.prim = "")
  /\ (handler = "gen" /\ c.authPluginName = AUTH_CLEAR_PASSWORD)
       => (frame.ret = "" /\ frame.auth = cfg.password /\ frame.addNull)
  /\ (handler = "write" /\ c.authPluginName \notin FourPlugins)
       => (ret = ErrUnknownAuthPlugin /\ RejectedAtOnce)

C11_Witness ==
  /\ handler = "write" /\ c.authPluginName = AUTH_CLEAR_PASSWORD
  /\ ret = ErrUnknownAuthPlugin /\ Len(cfg.password) > 0

\* genAuthResponse has returned auth bytes (called alone or by
\* writeAuthHandshake)
Generated ==
  /\ handler \in {"gen", "write"}
  /\ frame.ret \in {"", ErrInvalidCollation}
  /\ pc # "greeted"

\* C12: sha256_password returns an empty response with the trailing-zero
\* flag for an empty password, the raw password with the flag when TLS is
\* active or the transport is a local socket, and the single byte 0x01
\* without the flag otherwise; the flag is never set for
\* mysql_native_password, caching_sha2_password or client_ed25519.
C12_Sha256DecisionTable ==
  Generated =>
    /\ c.authPluginName = AUTH_SHA256_PASSWORD =>
         /\ Len(cfg.password) = 0 => (frame.auth = <<>> /\ frame.addNull)
         /\ (Len(cfg.password) > 0 /\ (cfg.tls \/ cfg.proto = "unix"))
              => (frame.auth = cfg.password /\ frame.addNull)
         /\ (Len(cfg.password) > 0 /\ ~cfg.tls /\ cfg.proto # "unix")
              => (frame.auth = <<1>> /\ ~frame.addNull)
    /\ c.authPluginName \in {AUTH_NATIVE_PASSWORD, AUTH_CACHING_SHA2_PASSWORD,
                             AUTH_MARIADB_ED25519} => ~frame.addNull

C12_Witness ==
  /\ Generated /\ handler = "gen"
  /\ c.authPluginName = AUTH_SHA256_PASSWORD
  /\ Len(cfg.password) > 0 /\ ~cfg.tls /\ cfg.proto = "tcp"
  /\ frame.auth = <<1>> /\ ~frame.addNull

\* C13: for client_ed25519 a challenge that is not 32 bytes long makes
\* genAuthResponse return the malformed-packet error without calling the
\* signature primitive, and writeAuthHandshake returns that error without
\* writing a packet.
C13_Ed25519NeedsThirtyTwoBytes ==
  (handler \in {"gen", "write"} /\ pc # "greeted"
     /\ c.authPluginName = AUTH_MARIADB_ED25519 /\ Len(c.salt) # 32)
    => /\ frame.ret = ErrMalformedPacket
       /\ ret = ErrMalformedPacket
       /\ frame.prim = "" /\ frame.auth = <<>>
       /\ pc = "failed"
       /\ wire = <<>> /\ Sequence = pre.Sequence /\ transport = pre.transport

C13_Witness ==
  /\ handler = "write" /\ c.authPluginName = AUTH_MARIADB_ED25519
  /\ Len(c.salt) = 31 /\ ret = ErrMalformedPacket /\ wire = <<>>

\* the extended tail of a greeting: position of its first byte, the
\* auth-plugin-data length byte, and the length and place of scramble part 2
TailPos(d) == FillerPos(d) + 3

HasTail(d) == HasLowerCaps(d) /\ Len(d) >= TailPos(d) + 16

AuthPluginDataLen(d) == At(d, TailPos(d) + 5)

Part2Len(d) ==
  (IF AuthPluginDataLen(d) - 8 > 13 THEN AuthPluginDataLen(d) - 8 ELSE 13) - 1

Part2Pos(d) == TailPos(d) + 16

\* the bytes from position q up to the next zero byte
NameAt(d, q) == Slice(d, q, q + IndexByte(Slice(d, q, Len(d)), 0))

\* C14: for an accepted greeting with the extended tail and the
\* secure-connection bit, the stored challenge is the 8 bytes of part 1
\* followed by the next max(13, L - 8) - 1 bytes of part 2, L being the
\* auth-plugin-data length byte (20 bytes for L = 21), and one boundary byte
\* is skipped before the plugin name.
C14_ChallengeAssembly ==
  (ParsedPacket /\ ret = "ok" /\ HasTail(data)
     /\ c.capability \cap CLIENT_SECURE_CONNECTION # {})
    => /\ c.salt = Slice(data, FillerPos(data) - 8, FillerPos(data))
                     \o Slice(data, Part2Pos(data), Part2Pos(data) + Part2Len(data))
       /\ Len(c.salt) = 8 + Part2Len(data)
       /\ AuthPluginDataLen(data) = 21 => Len(c.salt) = 20
       /\ (c.capability \cap CLIENT_PLUGIN_AUTH # {}
             /\ NameAt(data, Part2Pos(data) + Part2Len(data) + 1) # <<>>)
            => c.authPluginName = NameAt(data, Part2Pos(data) + Part2Len(data) + 1)

C14_Witness ==
  /\ ParsedPacket /\ ret = "ok" /\ HasTail(data)
  /\ AuthPluginDataLen(data) = 21 /\ Len(c.salt) = 20
  /\ c.salt[8] # c.salt[9] /\ c.salt[20] = 52
  /\ c.authPluginName = AUTH_CACHING_SHA2_PASSWORD

\* index, in the payload of a handshake response, of the first byte of the
\* auth field: after the 32 fixed bytes and the zero-terminated user name
AuthPos == 32 + Len(cfg.user) + 1 + 1

\* C15: the handshake response carries the length-encoded-client-data bit
\* and a multi-byte length prefix exactly when the auth response is longer
\* than 250 bytes; up to 250 bytes the prefix is the one length byte and the
\* bit is absent.
C15_LongAuthUsesLengthEncoding ==
  \A i \in Responses :
    LET p == Payload(wire[i])
        n == Len(frame.auth)
    IN /\ (CLIENT_PLUGIN_AUTH_LENENC_CLIENT_DATA \subseteq SentCaps(wire[i])) <=> n > 250
       /\ n <= 250 => /\ p[AuthPos] = n
                      /\ SubSeq(p, AuthPos + 1, AuthPos + n) = frame.auth
       /\ n > 250 => /\ p[AuthPos] = 252
                     /\ p[AuthPos + 1] + 256 * p[AuthPos + 2] = n
                     /\ SubSeq(p, AuthPos + 3, AuthPos + 2 + n) = frame.auth

C15_Witness ==
  \E i \in Responses :
    /\ Len(frame.auth) = LongPasswordLen
    /\ Payload(wire[i])[AuthPos] = 252
    /\ CLIENT_PLUGIN_AUTH_LENENC_CLIENT_DATA \subseteq SentCaps(wire[i])
    /\ CLIENT_PLUGIN_AUTH_LENENC_CLIENT_DATA \cap cfg.clientExplicitOffCaps # {}

\* position of the plugin name in a greeting with the extended tail
NamePos(d, capability) ==
  IF capability \cap CLIENT_SECURE_CONNECTION # {}
  THEN Part2Pos(d) + Part2Len(d) + 1
  ELSE Part2Pos(d)

\* the greeting advertises plugin-auth and holds no zero byte from the place
\* of its plugin name on
UnterminatedPluginName ==
  /\ ParsedPacket /\ HasTail(data)
  /\ c.capability \cap CLIENT_PLUGIN_AUTH # {}
  /\ NamePos(data, c.capability) < Len(data)
  /\ IndexByte(Slice(data, NamePos(data, c.capability), Len(data)), 0) < 0

\* C16: a greeting with the plugin-auth bit whose plugin name has no
\* terminating zero byte makes readInitialHandshake fail with the
\* malformed-packet error; it does not crash.
C16_UnterminatedPluginNameIsMalformed ==
  UnterminatedPluginName => ret = ErrMalformedPacket

\* C17: ParseGTIDSet dispatches on the flavor name alone: "mysql" returns
\* what the MySQL parser returns for the string, "mariadb" what the MariaDB
\* parser returns, and any other flavor returns no set and the
\* invalid-flavor error without calling a parser.
C17_FlavorDispatch ==
  \A i \in DOMAIN gtid :
    LET g == gtid[i]
    IN /\ g.flavor = "mysql" =>
            /\ g.called = "ParseMysqlGTIDSet"
            /\ g.set = ParseMysqlGTIDSet(g.s).set /\ g.err = ParseMysqlGTIDSet(g.s).err
       /\ g.flavor = "mariadb" =>
            /\ g.called = "ParseMariadbGTIDSet"
            /\ g.set = ParseMariadbGTIDSet(g.s).set /\ g.err = ParseMariadbGTIDSet(g.s).err
       /\ g.flavor \notin {"mysql", "mariadb"} =>
            (g.called = "" /\ g.set = NilGTIDSet /\ g.err = ErrInvalidFlavor)

C17_Witness ==
  /\ Len(gtid) = 2
  /\ gtid[1].flavor = "mariadb" /\ gtid[1].s = "0-1-100"
  /\ gtid[1].set.kind = "MariadbGTIDSet" /\ gtid[1].err = ""
  /\ gtid[2].flavor = "MySQL" /\ gtid[2].err = ErrInvalidFlavor

\* C18: a failed TLS handshake ends writeAuthHandshake: the handshake error
\* is what the function returns, the SSL request packet has been written
\* exactly once, no handshake response is written, the transport is not
\* rebound, and no step follows.
C18_TLSFailureIsTerminal ==
  Happened("tlsHandshakeFailed") =>
    /\ pc = "failed" /\ handler = "write" /\ ret = ErrTLSHandshake
    /\ Len(wire) = 1 /\ Cardinality(SSLRequests) = 1 /\ Responses = {}
    /\ wire[1].transport = "raw"
    /\ transport = "raw"
    /\ Sequence = (pre.Sequence + 1) % 256
    /\ ~Happened("tlsHandshake") /\ ~Happened("rebind")
    /\ ~Happened("serialize") /\ ~Happened("write")
    /\ Cardinality({i \in DOMAIN trace : trace[i].ev = "tlsHandshakeFailed"}) = 1
    /\ trace[Len(trace)].ev = "tlsHandshakeFailed"
    /\ ~ENABLED Next

C18_Witness ==
  /\ Happened("tlsHandshakeFailed") /\ ret = ErrTLSHandshake
  /\ Len(wire) = 1 /\ wire[1].kind = "sslRequest" /\ transport = "raw"

\* C19: after an accepted greeting that leaves the plugin name
\* mysql_native_password, the stored challenge has at least 20 bytes, and
\* the following writeAuthHandshake does not crash taking its first 20.
C19_NativeChallengeHasTwentyBytes ==
  /\ (handler = "read" /\ ret = "ok" /\ c.authPluginName = AUTH_NATIVE_PASSWORD)
       => Len(c.salt) >= 20
  /\ (handler = "write" /\ c.authPluginName = AUTH_NATIVE_PASSWORD)
       => ret # Panic

\* C20: the SSL request is sent only to a server whose stored capability
\* flags contain the SSL bit; the SSL bit is in the capability flags of a
\* written packet exactly when TLS is configured; and the SSL request and
\* the handshake response that follows carry the same capability flags.
C20_UpgradeOnlyWhenOffered ==
  /\ SSLRequests # {} => (pre.c.capability \cap CLIENT_SSL # {} /\ cfg.tls)
  /\ \A i \in DOMAIN wire : (CLIENT_SSL \subseteq SentCaps(wire[i])) <=> cfg.tls
  /\ \A i \in SSLRequests, j \in Responses :
       /\ i < j
       /\ SentCaps(wire[i]) = SentCaps(wire[j])
       /\ SubSeq(Payload(wire[i]), 1, 4) = SubSeq(Payload(wire[j]), 1, 4)
  /\ (Responses # {} /\ cfg.tls) => SSLRequests # {}

C20_Witness ==
  /\ pc = "done" /\ cfg.tls
  /\ \E i \in SSLRequests, j \in Responses :
       /\ CLIENT_SSL \subseteq SentCaps(wire[j])
       /\ SentCaps(wire[i]) = SentCaps(wire[j])
  /\ CLIENT_SSL \cap cfg.clientExplicitOffCaps # {}
  /\ c.capability \cap CLIENT_SSL # {}

====
